---- MODULE Spec2Model ----
(***************************************************************************)
(* UFEDKMLmerge.py as a state machine: the main loop, the selection        *)
(* prompt, the concurrent extraction of the selected KML files, the        *)
(* coordinator that appends the extracted Placemark nodes into the merged  *)
(* document, the write of the merged file and the call of the report.      *)
(*                                                                         *)
(* Files live outside the program.  Which names the directory holds is the *)
(* variable `exists`; DeleteFile is the environment removing one, at any   *)
(* time.  What a file holds is read when a worker opens it: Run draws the  *)
(* document from InputDocs.  A document is its size in bytes, the number n *)
(* of complete Placemark elements under its kml root, and whether the XML  *)
(* breaks (or the read fails) after them; an unreadable file is one that   *)
(* breaks before the first element.  Every Placemark of a source carries   *)
(* content ("data"); an element after elem.clear() is "empty".  Placemark  *)
(* elements are children of the document, not nested in one another, and   *)
(* the root is kml.  The listing is one step; its per-file counts and      *)
(* sizes are only printed and are left out of kml_files.                   *)
(*                                                                         *)
(* Threads: the main thread is the coordinator (pc); each submitted task   *)
(* is a future of the pool.  A task touches only its own tree, so it is    *)
(* one step (Run); the coordinator's document.extend is one step per node  *)
(* (extend), so that steps of the workers fall between two appends.        *)
(* parse_kml_file catches every Exception, so future.result() never        *)
(* raises and the except branch of the collecting loop is never taken.     *)
(***************************************************************************)
EXTENDS Integers, Sequences, FiniteSets, TLC

\* ---------------------------------------------------------------- bounds
MaxPlacemarks == 2
MaxInput == 2

\* ------------------------------------------------------------- constants
LARGE_FILE_THRESHOLD == 10 * 1024 * 1024

Files == {"a.kml", "b.kml"}
\* os.listdir order, fixed for the model
DirOrder == <<"a.kml", "b.kml">>

\* sizes on both sides of the threshold: the largest size parsed whole and
\* the smallest size streamed
Sizes == {LARGE_FILE_THRESHOLD, LARGE_FILE_THRESHOLD + 1}

\* what a worker can find when it opens an existing file: the size, the
\* number n of complete Placemark elements, and whether the XML or the
\* read breaks after them
InputDocs == [present : {TRUE}, size : Sizes, n : 0..MaxPlacemarks, bad : BOOLEAN]

\* a name that is no longer in the directory
Missing == [present |-> FALSE, size |-> 0, n |-> 0, bad |-> FALSE]

\* return None of parse_kml_file
None == [kind |-> "None", placemarks |-> <<>>]

\* the k-th Placemark element of the source read by future i
Placemark(i, k) == [src |-> i, k |-> k, body |-> "data"]

VARIABLES
    exists,          \* [Files -> BOOLEAN]: the .kml files of the directory
    pc,              \* position of the main thread
    kml_files,       \* the listing held by main / get_user_selection
    selected_files,  \* the selection returned to main
    futures,         \* one record per submitted extraction task
    document,        \* children of the merged <Document> container
    placemark_count, \* counter of merge_kml_files
    cur,             \* the future the coordinator is extending from (0: none)
    out,             \* <timestamp>_Merged.kml of this merge
    report,          \* arguments save_analysis_to_excel was called with
    msg,             \* last message shown to the user
    err              \* exception that ended the process ("none" while alive)

vars == <<exists, pc, kml_files, selected_files, futures, document,
          placemark_count, cur, out, report, msg, err>>

NoReport == [called |-> FALSE, files |-> <<>>, count |-> 0, saved |-> FALSE]

\* ------------------------------------------------------- pure functions

RECURSIVE FilterSeq(_, _)
FilterSeq(s, keep) ==
    IF s = <<>> THEN <<>>
    ELSE IF keep[Head(s)] THEN <<Head(s)>> \o FilterSeq(Tail(s), keep)
         ELSE FilterSeq(Tail(s), keep)

\* list_kml_files: the names ending in .kml, or the exit when there is none
list_kml_files(ex) == FilterSeq(DirOrder, ex)

\* elem.clear(): children, attributes, text and tail are dropped
clear(elem) == [elem EXCEPT !.body = "empty"]

\* document.append(elem); elem.clear() of the streaming loop: the element
\* moved under the fresh Document is the object that is then cleared
stream_append(doc, elem) ==
    LET moved == Append(doc, elem)
    IN  [moved EXCEPT ![Len(moved)] = clear(@)]

\* mutant: the except branch hands back the nodes read before the error
RECURSIVE iterparse_loop_partial(_, _, _, _)
iterparse_loop_partial(i, d, k, doc) ==
    IF k > d.n
    THEN [kind |-> "streamed", placemarks |-> doc]
    ELSE iterparse_loop_partial(i, d, k + 1, stream_append(doc, Placemark(i, k)))

\* for event, elem in context: ... ; the reader raises at the broken point
RECURSIVE iterparse_loop(_, _, _, _)
iterparse_loop(i, d, k, doc) ==
    IF k > d.n
    THEN IF d.bad THEN None ELSE [kind |-> "streamed", placemarks |-> doc]
    ELSE iterparse_loop(i, d, k + 1, stream_append(doc, Placemark(i, k)))

\* etree.parse(kml_file).getroot()
parse_whole(i, d) ==
    IF d.bad THEN None
    ELSE [kind |-> "parsed", placemarks |-> [k \in 1..d.n |-> Placemark(i, k)]]

\* os.path.getsize(kml_file) > LARGE_FILE_THRESHOLD
is_large(d) == d.size > LARGE_FILE_THRESHOLD

\* parse_kml_file for the task of future i, d being what the file holds;
\* os.path.getsize raises on a missing name, inside the try
parse_kml_file(i, d) ==
    IF ~d.present THEN None
    ELSE IF is_large(d) THEN iterparse_loop(i, d, 1, <<>>)
         ELSE parse_whole(i, d)

\* root.findall('.//{http://www.opengis.net/kml/2.2}Placemark')
findall(root) == root.placemarks

\* mutant: placemark_count = len(placemarks)
add_count_overwrite(count, placemarks) == Len(placemarks)

\* placemark_count += len(placemarks)
add_count(count, placemarks) == count + Len(placemarks)

\* mutant: if len(document) >= 0
has_nodes_always(doc) == Len(doc) >= 0

\* if len(document) > 0
has_nodes(doc) == Len(doc) > 0

\* mutant: if len(selected_files) < 1
enough_files_one(selected) == ~(Len(selected) < 1)

\* the negation of: if len(selected_files) < 2
enough_files(selected) == ~(Len(selected) < 2)

\* --------------------------------------------------- get_user_selection
\* one comma-separated piece of the typed line, after strip()
Tokens == {"0", "1", "2", "3", "x", "e"}

\* index.isdigit()
isdigit(t) == t \in {"0", "1", "2", "3"}

\* int(index)
int(t) == CASE t = "0" -> 0 [] t = "1" -> 1 [] t = "2" -> 2 [] t = "3" -> 3

\* the typed lines: Enter alone is <<>>, "e" is <<"e">>
RECURSIVE SeqsUpTo(_, _)
SeqsUpTo(S, n) ==
    IF n = 0 THEN {<<>>}
    ELSE LET shorter == SeqsUpTo(S, n - 1)
         IN  shorter \cup {Append(q, x) : q \in shorter, x \in S}

Inputs == SeqsUpTo(Tokens, MaxInput)

\* for index in selected_indices.split(','): ... selected_files.append(...)
RECURSIVE select_indices(_, _)
select_indices(input, listing) ==
    IF input = <<>> THEN <<>>
    ELSE LET index == Head(input)
             rest == select_indices(Tail(input), listing)
         IN  IF isdigit(index) /\ 1 <= int(index) /\ int(index) <= Len(listing)
             THEN <<listing[int(index)]>> \o rest
             ELSE rest

\* the files an accepted line names: all of them on Enter
selection_of(input, listing) ==
    IF input = <<>> THEN listing ELSE select_indices(input, listing)

\* ------------------------------------------------------------------ Init
Init ==
    /\ exists \in [Files -> BOOLEAN]
    /\ pc = "main"
    /\ kml_files = <<>>
    /\ selected_files = <<>>
    /\ futures = <<>>
    /\ document = <<>>
    /\ placemark_count = 0
    /\ cur = 0
    /\ out = "none"
    /\ report = NoReport
    /\ msg = "none"
    /\ err = "none"

\* ------------------------------------------------------------- actions
Alive == pc \notin {"exited", "crashed"}

\* the environment removes a file of the directory
DeleteFile ==
    /\ Alive
    /\ \E f \in Files :
        /\ exists[f]
        /\ exists' = [exists EXCEPT ![f] = FALSE]
    /\ UNCHANGED <<pc, kml_files, selected_files, futures, document,
                   placemark_count, cur, out, report, msg, err>>

\* main, top of the loop: configure_logging, clear_screen, print_header,
\* list_kml_files (which leaves with sys.exit(0) when there is no .kml)
main ==
    /\ pc = "main"
    /\ LET listing == list_kml_files(exists)
       IN  IF listing = <<>>
           THEN /\ pc' = "exited"
                /\ msg' = "no_files"
                /\ UNCHANGED kml_files
           ELSE /\ pc' = "prompt"
                /\ msg' = "none"
                /\ kml_files' = listing
    /\ UNCHANGED <<exists, selected_files, futures, document,
                   placemark_count, cur, out, report, err>>

\* get_user_selection, one turn of its loop on one typed line
get_user_selection ==
    /\ pc = "prompt"
    /\ \E input \in Inputs :
        LET selected == selection_of(input, kml_files)
            relisted == list_kml_files(exists)
        IN  IF input = <<"e">>
            THEN /\ pc' = "exited"
                 /\ msg' = "bye"
                 /\ UNCHANGED <<kml_files, selected_files>>
            ELSE IF selected = <<>>
            THEN \* ValueError("No valid selection made."), continue
                 /\ pc' = "prompt"
                 /\ msg' = "invalid"
                 /\ UNCHANGED <<kml_files, selected_files>>
            ELSE IF ~enough_files(selected)
            THEN \* message, countdown, kml_files = list_kml_files()
                 IF relisted = <<>>
                 THEN /\ pc' = "exited"
                      /\ msg' = "no_files"
                      /\ UNCHANGED <<kml_files, selected_files>>
                 ELSE /\ pc' = "prompt"
                      /\ msg' = "need_two"
                      /\ kml_files' = relisted
                      /\ UNCHANGED selected_files
            ELSE /\ pc' = "merge"
                 /\ msg' = "none"
                 /\ selected_files' = selected
                 /\ UNCHANGED kml_files
    /\ UNCHANGED <<exists, futures, document, placemark_count, cur, out,
                   report, err>>

\* merge_kml_files, entry: the empty container, the counter, and one
\* submitted future per selected file
submit ==
    /\ pc = "merge"
    /\ document' = <<>>
    /\ placemark_count' = 0
    /\ futures' = [i \in 1..Len(selected_files) |->
                     [file |-> selected_files[i], st |-> "pending",
                      doc |-> Missing, root |-> None, logged |-> "none"]]
    /\ cur' = 0
    /\ out' = "none"
    /\ report' = NoReport
    /\ pc' = "collect"
    /\ UNCHANGED <<exists, kml_files, selected_files, msg, err>>

\* mutant: the streaming loop of the worker appends to the merged container
\* instead of its own Document element
Run_shared(i) ==
    /\ pc \in {"collect", "extend"}
    /\ i \in DOMAIN futures
    /\ futures[i].st = "pending"
    /\ \E d \in (IF exists[futures[i].file] THEN InputDocs ELSE {Missing}) :
        LET streamed == d.present /\ is_large(d)
            read == iterparse_loop_partial(i, d, 1, <<>>).placemarks
        IN  /\ futures' = [futures EXCEPT
                  ![i].st = "finished",
                  ![i].doc = d,
                  ![i].root = IF streamed /\ ~d.bad
                              THEN [kind |-> "streamed", placemarks |-> <<>>]
                              ELSE parse_kml_file(i, d)]
            /\ document' = IF streamed THEN document \o read ELSE document
    /\ UNCHANGED <<exists, pc, kml_files, selected_files,
                   placemark_count, cur, out, report, msg, err>>

\* a worker thread runs parse_kml_file for future i
Run(i) ==
    /\ pc \in {"collect", "extend"}
    /\ i \in DOMAIN futures
    /\ futures[i].st = "pending"
    /\ \E d \in (IF exists[futures[i].file] THEN InputDocs ELSE {Missing}) :
        futures' = [futures EXCEPT ![i].st = "finished",
                                   ![i].doc = d,
                                   ![i].root = parse_kml_file(i, d)]
    /\ UNCHANGED <<exists, pc, kml_files, selected_files, document,
                   placemark_count, cur, out, report, msg, err>>

\* the pool runs any pending task: there are fewer tasks than the
\* min(32, cpu_count + 4) workers of ThreadPoolExecutor()
run == \E i \in DOMAIN futures : Run(i)

\* mutant: a None result ends the collection, the other futures are dropped
next_completed_break(i) ==
    /\ pc = "collect"
    /\ i \in DOMAIN futures
    /\ futures[i].st = "finished"
    /\ LET root == futures[i].root
       IN  IF root = None
           THEN /\ futures' = [j \in DOMAIN futures |->
                                 [futures[j] EXCEPT
                                    !.st = "consumed",
                                    !.logged = IF j = i THEN "failed" ELSE @]]
                /\ UNCHANGED <<pc, cur, placemark_count>>
           ELSE IF findall(root) = <<>>
           THEN /\ futures' = [futures EXCEPT ![i].st = "consumed",
                                              ![i].logged = "merged"]
                /\ placemark_count' = add_count(placemark_count, findall(root))
                /\ UNCHANGED <<pc, cur>>
           ELSE /\ futures' = [futures EXCEPT ![i].st = "extending"]
                /\ cur' = i
                /\ pc' = "extend"
                /\ UNCHANGED placemark_count
    /\ UNCHANGED <<exists, kml_files, selected_files, document, out, report,
                   msg, err>>

\* for future in as_completed(futures): the coordinator takes a finished
\* future; a None result is logged, an empty result is a merge of 0 nodes,
\* anything else starts document.extend(placemarks)
next_completed(i) ==
    /\ pc = "collect"
    /\ i \in DOMAIN futures
    /\ futures[i].st = "finished"
    /\ LET root == futures[i].root
       IN  IF root = None
           THEN /\ futures' = [futures EXCEPT ![i].st = "consumed",
                                              ![i].logged = "failed"]
                /\ UNCHANGED <<pc, cur, placemark_count>>
           ELSE IF findall(root) = <<>>
           THEN /\ futures' = [futures EXCEPT ![i].st = "consumed",
                                              ![i].logged = "merged"]
                /\ placemark_count' = add_count(placemark_count, findall(root))
                /\ UNCHANGED <<pc, cur>>
           ELSE /\ futures' = [futures EXCEPT ![i].st = "extending"]
                /\ cur' = i
                /\ pc' = "extend"
                /\ UNCHANGED placemark_count
    /\ UNCHANGED <<exists, kml_files, selected_files, document, out, report,
                   msg, err>>

\* as_completed yields any future that has finished
as_completed == \E i \in DOMAIN futures : next_completed(i)

\* document.extend(placemarks), one node at a time; after the last node
\* the counter is raised and the success is logged
extend ==
    /\ pc = "extend"
    /\ LET placemarks == findall(futures[cur].root)
           done == Cardinality({j \in 1..Len(document) : document[j].src = cur})
       IN  /\ document' = Append(document, placemarks[done + 1])
           /\ IF done + 1 = Len(placemarks)
              THEN /\ placemark_count' = add_count(placemark_count, placemarks)
                   /\ futures' = [futures EXCEPT ![cur].st = "consumed",
                                                 ![cur].logged = "merged"]
                   /\ cur' = 0
                   /\ pc' = "collect"
              ELSE UNCHANGED <<placemark_count, futures, cur, pc>>
    /\ UNCHANGED <<exists, kml_files, selected_files, out, report, msg, err>>

\* every future was collected: if len(document) > 0 the output is opened,
\* else "No valid KML files were merged." and the return to main
collected ==
    /\ pc = "collect"
    /\ \A i \in DOMAIN futures : futures[i].st = "consumed"
    /\ IF has_nodes(document)
       THEN /\ pc' = "write"
            /\ UNCHANGED <<msg, futures, document, placemark_count>>
       ELSE /\ pc' = "main"
            /\ msg' = "no_valid"
            /\ futures' = <<>>
            /\ document' = <<>>
            /\ placemark_count' = 0
    /\ UNCHANGED <<exists, kml_files, selected_files, cur, out, report, err>>

\* with open(output_file, 'wb') as f: the file is created empty, or the
\* open raises
open_output ==
    /\ pc = "write"
    /\ \/ /\ out' = "empty"
          /\ pc' = "writing"
          /\ UNCHANGED err
       \/ /\ pc' = "crashed"
          /\ err' = "WriteFailure"
          /\ UNCHANGED out
    /\ UNCHANGED <<exists, kml_files, selected_files, futures, document,
                   placemark_count, cur, report, msg>>

\* f.write(etree.tostring(merged_root, pretty_print=True)): all the bytes,
\* or an exception before the first byte or after some of them; after the
\* write save_analysis_to_excel is called
write_output ==
    /\ pc = "writing"
    /\ \/ /\ out' = "complete"
          /\ pc' = "report"
          /\ msg' = "saved"
          /\ report' = [called |-> TRUE, files |-> selected_files,
                        count |-> placemark_count, saved |-> FALSE]
          /\ UNCHANGED err
       \/ /\ out' \in {"empty", "partial"}
          /\ pc' = "crashed"
          /\ err' = "WriteFailure"
          /\ UNCHANGED <<msg, report>>
    /\ UNCHANGED <<exists, kml_files, selected_files, futures, document,
                   placemark_count, cur>>

\* save_analysis_to_excel: os.path.getsize of every selected file, then the
\* workbook; merge_kml_files prints its last line and returns to main
save_analysis_to_excel ==
    /\ pc = "report"
    /\ IF \E i \in 1..Len(report.files) : ~exists[report.files[i]]
       THEN /\ pc' = "crashed"
            /\ err' = "FileNotFoundError"
            /\ UNCHANGED <<report, msg, futures, document, placemark_count>>
       ELSE \/ /\ report' = [report EXCEPT !.saved = TRUE]
               /\ pc' = "main"
               /\ msg' = "merged"
               /\ futures' = <<>>
               /\ document' = <<>>
               /\ placemark_count' = 0
               /\ UNCHANGED err
            \/ /\ pc' = "crashed"
               /\ err' = "ReportWriteFailure"
               /\ UNCHANGED <<report, msg, futures, document, placemark_count>>
    /\ UNCHANGED <<exists, kml_files, selected_files, cur, out>>

Next ==
    \/ DeleteFile
    \/ main
    \/ get_user_selection
    \/ submit
    \/ run
    \/ as_completed
    \/ extend
    \/ collected
    \/ open_output
    \/ write_output
    \/ save_analysis_to_excel

Spec == Init /\ [][Next]_vars
\* ------------------------------------------------------------- helpers
\* no name twice
Distinct(q) == \A i, j \in 1..Len(q) : q[i] = q[j] => i = j

WellFormed(d) == d.present /\ ~d.bad

Ran(i) == futures[i].st \in {"finished", "extending", "consumed"}

AllCollected ==
    /\ futures # <<>>
    /\ \A i \in DOMAIN futures : futures[i].st = "consumed"

\* positions of the container that hold nodes of future i
NodesAt(i) == {j \in 1..Len(document) : document[j].src = i}

\* the nodes of future i in the container, in container order
RECURSIVE NodesFrom(_, _)
NodesFrom(doc, i) ==
    IF doc = <<>> THEN <<>>
    ELSE IF Head(doc).src = i THEN <<Head(doc)>> \o NodesFrom(Tail(doc), i)
         ELSE NodesFrom(Tail(doc), i)

\* c_1 + ... + c_m over the well-formed sources among the first m futures
RECURSIVE SumCounts(_)
SumCounts(m) ==
    IF m = 0 THEN 0
    ELSE SumCounts(m - 1)
         + (IF Ran(m) /\ WellFormed(futures[m].doc) THEN futures[m].doc.n ELSE 0)

\* ---------------------------------------------------------------- C1
\* C1: when every future of a merge of two or more well-formed sources has
\* been collected, the container holds c_1 + ... + c_N nodes, the counter
\* is that sum, the report (once called) was given that sum, and every
\* source, the ones with no Placemark included, was logged as merged.
C1_SumOfCounts ==
    (/\ AllCollected
     /\ Len(futures) >= 2
     /\ \A i \in DOMAIN futures : WellFormed(futures[i].doc))
    => /\ Len(document) = SumCounts(Len(futures))
       /\ placemark_count = SumCounts(Len(futures))
       /\ report.called => report.count = SumCounts(Len(futures))
       /\ \A i \in DOMAIN futures : futures[i].logged = "merged"

\* a streamed source, a source parsed whole and a source without Placemark
\* were merged and the report was called
C1_Witness ==
    /\ AllCollected
    /\ report.called
    /\ \A i \in DOMAIN futures : WellFormed(futures[i].doc)
    /\ \E i, j \in DOMAIN futures :
        /\ is_large(futures[i].doc) /\ futures[i].doc.n = MaxPlacemarks
        /\ ~is_large(futures[j].doc) /\ futures[j].doc.n = 0
    /\ placemark_count >= 2

\* ---------------------------------------------------------------- C2
\* C2: once a source has failed, every other future still runs and is
\* collected, and every node of every well-formed source that was collected
\* is in the container, exactly once, whatever the order of completion.
C2_FailureIsolation ==
    (\E f \in DOMAIN futures : Ran(f) /\ futures[f].root = None)
    => /\ \A i \in DOMAIN futures :
            (futures[i].st = "consumed" /\ WellFormed(futures[i].doc))
            => NodesFrom(document, i) = findall(futures[i].root)
                /\ Len(findall(futures[i].root)) = futures[i].doc.n
       /\ (pc \in {"write", "writing", "report", "crashed"}) => AllCollected

\* a failed source was collected before and after well-formed ones
C2_Witness ==
    /\ AllCollected
    /\ \E f, i \in DOMAIN futures :
        /\ futures[f].root = None
        /\ WellFormed(futures[i].doc)
        /\ futures[i].doc.n = MaxPlacemarks
        /\ Cardinality(NodesAt(i)) = MaxPlacemarks

\* ---------------------------------------------------------------- C3
\* C3: the nodes of a well-formed source that reach the container are the
\* nodes the whole-document path yields for the same content, in number and
\* in content, whichever path extracted them.
C3_StrategyEquivalence ==
    \A i \in DOMAIN futures :
        (futures[i].st = "consumed" /\ WellFormed(futures[i].doc))
        => NodesFrom(document, i) = findall(parse_whole(i, futures[i].doc))

\* ---------------------------------------------------------------- C4
\* every selected source failed or yielded no node
NothingExtracted ==
    /\ futures # <<>>
    /\ \A i \in DOMAIN futures :
        futures[i].root = None \/ findall(futures[i].root) = <<>>

\* the step that ends the collection of such a merge writes no output,
\* calls no report, shows the message and returns to main
NothingMergedStep ==
    (pc = "collect" /\ pc' \notin {"collect", "extend"} /\ NothingExtracted)
    => /\ pc' = "main"
       /\ msg' = "no_valid"
       /\ out' = "none"
       /\ ~report'.called
       /\ err' = "none"

InMerge == pc \in {"merge", "collect", "extend", "write", "writing", "report"}

\* a turn of the prompt (the directory unchanged by the step)
PromptTurn == pc = "prompt" /\ exists' = exists

\* the turn returns two or more files to main
ReturnsSelection == pc' = "merge" /\ Len(selected_files') >= 2

\* the turn reports the condition and prompts again, no merge started
PromptsAgain ==
    /\ pc' = "prompt"
    /\ msg' \in {"invalid", "need_two"}
    /\ msg' = "need_two" => kml_files' = list_kml_files(exists)
    /\ UNCHANGED <<selected_files, futures, document, placemark_count, out,
                   report>>

FirstMissing ==
    LET idx == {i \in 1..Len(selected_files) : ~exists[selected_files[i]]}
    IN  IF idx = {} THEN "" ELSE
        selected_files[CHOOSE i \in idx : \A j \in idx : i <= j]

\* C6: when a source is missing, unreadable or not valid XML and another
\* source contributes a node, the output is written, the report is called
\* with all the requested files and the counter, and no exception on the
\* failed source's file ends the process.
C6_FailuresAbsorbed ==
    (/\ AllCollected
     /\ Distinct(selected_files)
     /\ has_nodes(document)
     /\ \E f \in DOMAIN futures : futures[f].root = None)
    => /\ report.called =>
            /\ report.files = selected_files
            /\ report.count = placemark_count
       /\ ~(/\ pc = "crashed"
            /\ err = "FileNotFoundError"
            /\ \E f \in DOMAIN futures :
                /\ futures[f].root = None
                /\ ~futures[f].doc.present
                /\ futures[f].file = FirstMissing)

\* ---------------------------------------------------------------- C7
\* C7: after a failure of the write step the output file is absent, never
\* empty or partly written, and the report was not called.
C7_NoPartialOutput ==
    err = "WriteFailure" => (out \notin {"empty", "partial"} /\ ~report.called)

\* ---------------------------------------------------------------- C8
\* C8: the selection passed to merge_kml_files names each file at most once.
C8_UniqueSources ==
    InMerge => Distinct(selected_files)

\* ---------------------------------------------------------------- C9
\* the container holds, for each future, nothing before the coordinator has
\* taken it, then a prefix of its nodes, then all of them, each once
NoNodeLost ==
    \A i \in DOMAIN futures :
        LET mine == NodesFrom(document, i)
            all == findall(futures[i].root)
        IN  CASE futures[i].st \in {"pending", "finished"} -> mine = <<>>
              [] futures[i].st = "extending" ->
                    /\ cur = i /\ pc = "extend"
                    /\ Len(mine) < Len(all)
                    /\ mine = SubSeq(all, 1, Len(mine))
              [] OTHER -> mine = all

\* the nodes of one source are next to each other
Contiguous ==
    \A a, b, c \in 1..Len(document) :
        (a < b /\ b < c /\ document[a].src = document[c].src)
        => document[b].src = document[a].src

\* a step of a worker leaves the container alone; while futures are being
\* collected the container changes only by the coordinator appending the
\* next node of the one future it is extending from
SingleWriterStep ==
    /\ (\E i \in DOMAIN futures :
            futures[i].st = "pending" /\ futures'[i].st # "pending")
       => document' = document
    /\ (pc \in {"collect", "extend"} /\ document' # document)
       => /\ pc = "extend"
          /\ Len(document') = Len(document) + 1
          /\ SubSeq(document', 1, Len(document)) = document
          /\ document'[Len(document')].src = cur

\* C9: only the coordinator changes the container, one node of one
\* collected result at a time, whatever the workers do meanwhile; no node
\* is lost and the nodes of one source stay contiguous.
C9_SingleWriter ==
    /\ [](NoNodeLost /\ Contiguous)
    /\ [][SingleWriterStep]_vars

\* the coordinator is in the middle of one result while another future has
\* finished and waits
C9_Witness ==
    /\ pc = "extend"
    /\ Len(document) >= 1
    /\ \E i \in DOMAIN futures :
        /\ i # cur
        /\ futures[i].st = "finished"
        /\ Len(findall(futures[i].root)) = MaxPlacemarks

\* --------------------------------------------------------------- C10
\* C10: a source whose extraction failed, also after some of its Placemark
\* elements were read by the streaming reader, has no node in the container
\* and adds nothing to the counter: the counter is the sum over the
\* well-formed sources collected so far, and a collected source has all of
\* its nodes in the container or none.
C10_FailedAddsNothing ==
    /\ \A i \in DOMAIN futures :
        (Ran(i) /\ ~WellFormed(futures[i].doc))
        => /\ futures[i].root = None
           /\ NodesAt(i) = {}
    /\ \A i \in DOMAIN futures :
        futures[i].st = "consumed"
        => Cardinality(NodesAt(i)) \in {0, futures[i].doc.n}
    /\ (pc = "collect" \/ AllCollected) =>
        /\ placemark_count = Len(document)
        /\ AllCollected => placemark_count = SumCounts(Len(futures))

\* a streamed source that broke after at least one Placemark was collected
\* next to a source that contributed nodes
C10_Witness ==
    /\ AllCollected
    /\ Len(document) > 0
    /\ \E i \in DOMAIN futures :
        /\ futures[i].doc.present /\ futures[i].doc.bad
        /\ is_large(futures[i].doc)
        /\ futures[i].doc.n >= 1
        /\ futures[i].logged = "failed"
====
